---- MODULE Spec2Model ----
(***************************************************************************)
(* A model of character_roleplay.py: the persona synthesizer               *)
(* (RolePlayGenerator.generate_character_profile), the dialogue engine     *)
(* (RolePlayGenerator.generate_dialogue), the name extraction              *)
(* (RolePlayGenerator._extract_character_name), save_dialogue and main.    *)
(*                                                                         *)
(* Text is a sequence of characters.  TLA+ strings hold ASCII only, so a   *)
(* Chinese character is written as its pinyin in capitals: "JUE" is 角,    *)
(* "SE" 色, "MING" 名, "CHENG" 称, "XING" 姓, "COLON" the full-width       *)
(* colon ：, "NL" a line feed and "SP" a blank.  A lower-case string is a  *)
(* stretch of text that holds none of these characters.                    *)
(***************************************************************************)
EXTENDS Integers, Sequences, FiniteSets, TLC

\* ------------------------------------------------------------- bounds
MaxTurns == 4
MaxMainTurns == 1
MaxChunks == 5
MaxNameLen == 2

\* --------------------------------------------------------------- text

\* Python's None, kept apart from every text (no text holds this character).
None == <<"<None>">>

\* Python's truth value of an optional text: None and "" are false.
Truthy(s) == s # None /\ s # <<>>

\* 角色名称, 名称, 姓名: the name-label tokens of line 299.
LabelFull == <<"JUE", "SE", "MING", "CHENG">>
LabelShort == <<"MING", "CHENG">>
LabelAlt == <<"XING", "MING">>

\* "未知角色", the value returned when no name is found.
UnknownName == <<"WEI", "ZHI", "JUE", "SE">>

\* '默认角色', the name of the fallback persona when none is requested.
DefaultName == <<"MO", "REN", "JUE", "SE">>

\* The characters str.strip() removes.
Whitespace == {"SP", "NL"}

\* pat in s (Python's substring test).
Contains(s, pat) ==
    \E i \in 1..(Len(s) - Len(pat) + 1) : SubSeq(s, i, i + Len(pat) - 1) = pat

\* s.split(sep) for a one-character separator: the stretches between the
\* separators, empty ones kept.
RECURSIVE Split(_, _)
Split(s, sep) ==
    IF \A i \in 1..Len(s) : s[i] # sep
    THEN <<s>>
    ELSE LET k == CHOOSE i \in 1..Len(s) :
                      s[i] = sep /\ \A j \in 1..(i - 1) : s[j] # sep
         IN  <<SubSeq(s, 1, k - 1)>> \o Split(SubSeq(s, k + 1, Len(s)), sep)

\* s.strip(): s without its leading and trailing whitespace.
Strip(s) ==
    LET inked == {i \in 1..Len(s) : s[i] \notin Whitespace}
    IN  IF inked = {} THEN <<>>
        ELSE LET lo == CHOOSE i \in inked : \A j \in inked : i <= j
                 hi == CHOOSE i \in inked : \A j \in inked : i >= j
             IN  SubSeq(s, lo, hi)

\* ------------------------------------------------- the dialogue engine

\* default_replies, lines 145-153.
default_replies ==
    << <<"reply0_hello">>, <<"reply1_weather">>, <<"reply2_how_are_you">>,
       <<"reply3_thinking">>, <<"reply4_surprises">>, <<"reply5_glad">>,
       <<"reply6_next_time">> >>

\* What the model may answer to a dialogue request.
ModelReplies == {<<"model_says_a">>, <<"model_says_b">>}

\* "你们偶然在咖啡店相遇，开始一段对话。", line 128.
DefaultScene == <<"coffee_shop">>

VARIABLES
    \* main
    args,            \* the parsed command line and what the file system holds
    pc,              \* main's position
    character1,      \* main's local character1
    character2,      \* main's local character2
    events,          \* what main has done to the outside, in order
    \* generate_dialogue
    dpc,             \* the call's position
    p_character1,    \* parameter character1
    p_character2,    \* parameter character2
    num_turns,       \* parameter num_turns
    init_prompt,     \* init_prompt, after the default of line 127
    dialogues,       \* local dialogues
    history,         \* local history
    current_character,
    turn,            \* the loop variable
    request,         \* messages of the last chat.completions.create call
    outcomes,        \* what each model call of the run did, in order
    error_at,        \* the iteration the whole-loop handler caught, or -1
    returned,        \* the value returned to the caller
    \* generate_character_profile
    gpc, text, character_name, response, calls, profile,
    \* _extract_character_name
    xpc, x_profile, x_name,
    \* an exception that left the function under study
    raised

mainVars == <<args, pc, character1, character2, events>>
dlgVars == <<dpc, p_character1, p_character2, num_turns, init_prompt, dialogues,
             history, current_character, turn, request, outcomes, error_at,
             returned>>
genVars == <<gpc, text, character_name, response, calls, profile>>
extVars == <<xpc, x_profile, x_name>>
vars == <<mainVars, dlgVars, genVars, extVars, raised>>

\* f"角色{current_character}", the speaker label of a turn.
RoleLabel(c) == <<"JUE", "SE", IF c = 1 THEN "1" ELSE "2">>

\* Lines 162-165: the user prompt of an iteration.
Prompt(t, c) ==
    IF t = 0 THEN <<"first_line_of", "JUE", "SE", "1">>
    ELSE <<"next_line_of", "JUE", "SE", IF c = 1 THEN "1" ELSE "2">>

\* Lines 134-142 and 176: the system message of an iteration.
SystemMessage(c1, c2, scene, c) ==
    [role |-> "system",
     content |-> <<"personas">> \o c1 \o <<"NL">> \o c2 \o <<"NL", "scene">>
                 \o scene \o <<"NL", "play">> \o RoleLabel(c)]

\* Messages with only the newest entry of the history sent along.
MessagesLastOnly(sys, hist) == <<sys, hist[Len(hist)]>>

\* Lines 174-179: the system message, then the whole history.
Messages(sys, hist) == <<sys>> \o hist

\* LoopBound without the doubling: range(num_turns).
LoopBoundSingle(n) == IF n > 0 THEN n ELSE 0

\* Line 160: range(num_turns * 2).
LoopBound(n) == IF n > 0 THEN n * 2 ELSE 0

\* OtherCharacter with the branches swapped: the speaker never changes.
OtherCharacterStuck(c) == IF c = 1 THEN 1 ELSE 2

\* Lines 197 and 211: the other character.
OtherCharacter(c) == IF c = 1 THEN 2 ELSE 1

\* Line 205: default_replies[turn % len(default_replies)].
DefaultReply(t) == default_replies[(t % Len(default_replies)) + 1]

\* The state of a call of generate_dialogue at its for loop, lines 124-156.
EnterDialogue(c1, c2, n, scene) ==
    /\ dpc' = "loop"
    /\ p_character1' = c1
    /\ p_character2' = c2
    /\ num_turns' = n
    /\ init_prompt' = IF Truthy(scene) THEN scene ELSE DefaultScene
    /\ dialogues' = <<>>
    /\ history' = <<>>
    /\ current_character' = 1
    /\ turn' = 0
    /\ request' = <<>>
    /\ outcomes' = <<>>
    /\ error_at' = -1
    /\ returned' = None

\* Lines 168-179: the prompt joins the history and the request is sent.
HistoryWithPrompt == Append(history, [role |-> "user",
                                      content |-> Prompt(turn, current_character)])

RequestSent ==
    Messages(SystemMessage(p_character1, p_character2, init_prompt,
                           current_character), HistoryWithPrompt)

\* Lines 160-200: an iteration whose model call answers reply.
TurnSucceeds ==
    /\ dpc = "loop"
    /\ turn < LoopBound(num_turns)
    /\ \E reply \in ModelReplies :
        /\ request' = RequestSent
        /\ dialogues' = Append(dialogues,
               [role |-> RoleLabel(current_character), content |-> reply])
        /\ history' = Append(HistoryWithPrompt,
               [role |-> "assistant", content |-> reply])
        /\ outcomes' = Append(outcomes, [ok |-> TRUE, content |-> reply])
    /\ current_character' = OtherCharacter(current_character)
    /\ turn' = turn + 1
    /\ UNCHANGED <<dpc, p_character1, p_character2, num_turns, init_prompt,
                   error_at, returned>>
    /\ UNCHANGED <<mainVars, genVars, extVars, raised>>

\* TurnFails with the fallback line picked by the number of failures so far.
TurnFailsByFailureCount ==
    /\ dpc = "loop"
    /\ turn < LoopBound(num_turns)
    /\ request' = RequestSent
    /\ LET failures == Cardinality({i \in 1..Len(outcomes) : ~outcomes[i].ok})
       IN  /\ dialogues' = Append(dialogues,
                  [role |-> RoleLabel(current_character),
                   content |-> DefaultReply(failures)])
           /\ history' = Append(HistoryWithPrompt,
                  [role |-> "assistant", content |-> DefaultReply(failures)])
    /\ outcomes' = Append(outcomes, [ok |-> FALSE, content |-> <<>>])
    /\ current_character' = OtherCharacter(current_character)
    /\ turn' = turn + 1
    /\ UNCHANGED <<dpc, p_character1, p_character2, num_turns, init_prompt,
                   error_at, returned>>
    /\ UNCHANGED <<mainVars, genVars, extVars, raised>>

\* Lines 160-179 and 201-212: an iteration whose model call raises.
TurnFails ==
    /\ dpc = "loop"
    /\ turn < LoopBound(num_turns)
    /\ request' = RequestSent
    /\ dialogues' = Append(dialogues,
           [role |-> RoleLabel(current_character), content |-> DefaultReply(turn)])
    /\ history' = Append(HistoryWithPrompt,
           [role |-> "assistant", content |-> DefaultReply(turn)])
    /\ outcomes' = Append(outcomes, [ok |-> FALSE, content |-> <<>>])
    /\ current_character' = OtherCharacter(current_character)
    /\ turn' = turn + 1
    /\ UNCHANGED <<dpc, p_character1, p_character2, num_turns, init_prompt,
                   error_at, returned>>
    /\ UNCHANGED <<mainVars, genVars, extVars, raised>>

\* WholeLoopError with a handler that gives up the turns built so far.
WholeLoopErrorDropsTurns ==
    /\ dpc = "loop"
    /\ turn < LoopBound(num_turns)
    /\ dpc' = "after_loop"
    /\ error_at' = turn
    /\ dialogues' = <<>>
    /\ UNCHANGED <<p_character1, p_character2, num_turns, init_prompt,
                   history, current_character, turn, request, outcomes, returned>>
    /\ UNCHANGED <<mainVars, genVars, extVars, raised>>

\* Lines 160-168 and 213-215: an exception outside the inner try (the
\* progress bar, the prompt, history.append) ends the loop; the handler logs.
WholeLoopError ==
    /\ dpc = "loop"
    /\ turn < LoopBound(num_turns)
    /\ dpc' = "after_loop"
    /\ error_at' = turn
    /\ UNCHANGED <<p_character1, p_character2, num_turns, init_prompt, dialogues,
                   history, current_character, turn, request, outcomes, returned>>
    /\ UNCHANGED <<mainVars, genVars, extVars, raised>>

\* Line 160: the range is exhausted.
LoopEnds ==
    /\ dpc = "loop"
    /\ turn >= LoopBound(num_turns)
    /\ dpc' = "after_loop"
    /\ UNCHANGED <<p_character1, p_character2, num_turns, init_prompt, dialogues,
                   history, current_character, turn, request, outcomes, error_at,
                   returned>>
    /\ UNCHANGED <<mainVars, genVars, extVars, raised>>

\* Lines 217-218: return dialogues.
ReturnDialogues ==
    /\ dpc = "after_loop"
    /\ dpc' = "returned"
    /\ returned' = dialogues
    /\ UNCHANGED <<p_character1, p_character2, num_turns, init_prompt, dialogues,
                   history, current_character, turn, request, outcomes, error_at>>
    /\ UNCHANGED <<mainVars, genVars, extVars, raised>>

\* The personas and scenes generate_dialogue is called with.
Personas == {<<"persona_a">>, <<"persona_b">>}
Scenes == {None, <<"library">>}

IdleMain ==
    /\ args = [api_key |-> FALSE, text_file |-> "none", char1 |-> None,
               char2 |-> None, name1 |-> None, name2 |-> None, turns |-> 0,
               init_prompt |-> None]
    /\ pc = "idle"
    /\ character1 = None
    /\ character2 = None
    /\ events = <<>>

IdleGen ==
    /\ gpc = "idle"
    /\ text = <<>>
    /\ character_name = None
    /\ response = [ok |-> FALSE, content |-> None]
    /\ calls = 0
    /\ profile = None

IdleExt ==
    /\ xpc = "idle"
    /\ x_profile = None
    /\ x_name = None

\* A call generate_dialogue(character1, character2, num_turns, init_prompt).
Init ==
    /\ IdleMain /\ IdleGen /\ IdleExt
    /\ raised = FALSE
    /\ dpc = "loop"
    /\ p_character1 = <<"persona_a">>
    /\ p_character2 \in Personas
    /\ num_turns \in 0..MaxTurns
    /\ \E scene \in Scenes :
           init_prompt = IF Truthy(scene) THEN scene ELSE DefaultScene
    /\ dialogues = <<>>
    /\ history = <<>>
    /\ current_character = 1
    /\ turn = 0
    /\ request = <<>>
    /\ outcomes = <<>>
    /\ error_at = -1
    /\ returned = None

Next ==
    \/ TurnSucceeds
    \/ TurnFails
    \/ WholeLoopError
    \/ LoopEnds
    \/ ReturnDialogues

Spec == Init /\ [][Next]_vars

\* ---------------------------------------------- the persona synthesizer

\* fallback_profile with the placeholder name whatever name was asked for.
fallback_profile_unnamed(name) ==
    <<"NL">> \o LabelFull \o <<"COLON">> \o DefaultName
        \o <<"NL", "age", "COLON", "30",
             "NL", "gender", "COLON", "unknown",
             "NL", "looks", "COLON", "plain",
             "NL", "temper", "COLON", "friendly",
             "NL", "speech", "COLON", "matter_of_fact",
             "NL", "story", "COLON", "ordinary_life",
             "NL", "habits", "COLON", "sociable",
             "NL", "SP", "SP", "SP", "SP", "SP", "SP", "SP", "SP">>

\* Lines 56-66: the fallback persona (the indentation of its last line is
\* eight blanks).
fallback_profile(name) ==
    <<"NL">> \o LabelFull \o <<"COLON">>
        \o (IF Truthy(name) THEN name ELSE DefaultName)
        \o <<"NL", "age", "COLON", "30",
             "NL", "gender", "COLON", "unknown",
             "NL", "looks", "COLON", "plain",
             "NL", "temper", "COLON", "friendly",
             "NL", "speech", "COLON", "matter_of_fact",
             "NL", "story", "COLON", "ordinary_life",
             "NL", "habits", "COLON", "sociable",
             "NL", "SP", "SP", "SP", "SP", "SP", "SP", "SP", "SP">>

\* Lines 91-109: what generate_character_profile returns when its one model
\* call did res: the content as it came (line 103-105), or the fallback.
GenerateCharacterProfile(name, res) ==
    IF res.ok THEN res.content ELSE fallback_profile(name)

\* A persona as the model writes one.
ModelPersona ==
    LabelFull \o <<"COLON", "ZHANG", "NL", "age", "COLON", "41">>

\* The contents a successful chat.completions.create may carry: a persona,
\* the empty text, or no content at all.
ProfileContents == {ModelPersona, <<>>, None}

\* The results of the one model call of generate_character_profile.
ProfileResults ==
    {[ok |-> TRUE, content |-> c] : c \in ProfileContents}
        \cup {[ok |-> FALSE, content |-> None]}

RECURSIVE TextsOver(_, _)
\* The texts of at most n pieces drawn from parts.
TextsOver(parts, n) ==
    IF n = 0 THEN {<<>>}
    ELSE LET shorter == TextsOver(parts, n - 1)
         IN  shorter \cup {t \o c : t \in shorter, c \in parts}

\* The character names a caller may ask for, and None for no name.
Names == TextsOver({<<"ZHANG">>, <<"SAN">>, <<"SP">>}, MaxNameLen) \cup {None}

SourceTexts == {<<"story_of_the_stone">>, <<"water_margin">>}

\* Lines 91-105: the model call answers and its content is returned.
ProfileCallSucceeds ==
    /\ gpc = "called"
    /\ \E c \in ProfileContents :
        /\ response' = [ok |-> TRUE, content |-> c]
        /\ profile' = GenerateCharacterProfile(character_name, response')
    /\ calls' = calls + 1
    /\ gpc' = "returned"
    /\ UNCHANGED <<text, character_name>>
    /\ UNCHANGED <<mainVars, dlgVars, extVars, raised>>

\* Lines 91-100 and 106-109: the model call raises; the fallback is returned.
ProfileCallFails ==
    /\ gpc = "called"
    /\ response' = [ok |-> FALSE, content |-> None]
    /\ profile' = GenerateCharacterProfile(character_name, response')
    /\ calls' = calls + 1
    /\ gpc' = "returned"
    /\ UNCHANGED <<text, character_name>>
    /\ UNCHANGED <<mainVars, dlgVars, extVars, raised>>

\* ------------------------------------------------- the name extraction

\* Line 299: the line holds one of the name-label tokens.
HasLabel(line) ==
    Contains(line, LabelFull) \/ Contains(line, LabelShort)
        \/ Contains(line, LabelAlt)

\* NameOfLine without the strip().
NameOfLineUnstripped(line) ==
    LET parts == Split(line, "COLON") IN parts[Len(parts)]

\* Line 300: line.split("：")[-1].strip().
NameOfLine(line) ==
    LET parts == Split(line, "COLON") IN Strip(parts[Len(parts)])

\* Lines 295-304: the name of the first line holding a label token;
\* "未知角色" when there is none, or when profile.split raises (None).
ExtractCharacterName(p) ==
    IF p = None THEN UnknownName
    ELSE LET lines == Split(p, "NL")
             hits == {i \in 1..Len(lines) : HasLabel(lines[i])}
         IN  IF hits = {} THEN UnknownName
             ELSE NameOfLine(lines[CHOOSE i \in hits : \A j \in hits : i <= j])

\* The pieces persona texts are built from.
Chunks == {LabelFull, LabelShort, LabelAlt,
           <<"COLON">>, <<"SP">>, <<"NL">>, <<"ZHANG">>}

\* Lines 285-304: one call of _extract_character_name.
ExtractName ==
    /\ xpc = "called"
    /\ x_name' = ExtractCharacterName(x_profile)
    /\ xpc' = "returned"
    /\ UNCHANGED x_profile
    /\ UNCHANGED <<mainVars, dlgVars, genVars, raised>>

\* ------------------------------------------------------------- main

\* One thing main did to the outside: a file read, a synthesis call (a: the
\* name asked for, b: the persona returned), a generate_dialogue or a
\* save_dialogue call (a, b: the two personas passed; n1, n2: the names
\* save_dialogue extracted from them).
Event(kind, a, b) == [kind |-> kind, a |-> a, b |-> b, n1 |-> None, n2 |-> None]

\* Lines 383 and 386: the names of the example personas, "贾母" and "刘姥姥".
ExampleName1 == <<"JIA", "MU">>
ExampleName2 == <<"LIU", "LAO", "LAO">>

\* Line 364: "另一个角色".
OtherName == <<"LING", "YI", "GE", "JUE", "SE">>

\* Lines 362-364: the name asked for character 2.
Char2Name(a) ==
    IF ~Truthy(a.name2) /\ Truthy(a.name1) THEN OtherName ELSE a.name2

\* Line 346: args.text_file and not (character1 and character2).
WantsTextFile(a, c1, c2) ==
    a.text_file # "none" /\ ~(Truthy(c1) /\ Truthy(c2))

\* Line 372: not character1 or not character2.
WantsExample(c1, c2) == ~Truthy(c1) \/ ~Truthy(c2)

\* Lines 331-339 and 407-410: no API key; RolePlayGenerator raises and the
\* outer handler ends the run.
MainNoKey ==
    /\ pc = "start"
    /\ ~args.api_key
    /\ pc' = "done"
    /\ UNCHANGED <<args, character1, character2, events>>
    /\ UNCHANGED <<dlgVars, genVars, extVars, raised>>

\* Lines 339-346: the generator is built and the personas of the command
\* line are taken.
MainStart ==
    /\ pc = "start"
    /\ args.api_key
    /\ character1' = args.char1
    /\ character2' = args.char2
    /\ pc' = IF WantsTextFile(args, args.char1, args.char2)
             THEN "read" ELSE "example"
    /\ UNCHANGED <<args, events>>
    /\ UNCHANGED <<dlgVars, genVars, extVars, raised>>

\* Lines 349-350: the text file is read.
MainReadFile ==
    /\ pc = "read"
    /\ args.text_file = "readable"
    /\ events' = Append(events, Event("read", None, None))
    /\ pc' = "synth1"
    /\ UNCHANGED <<args, character1, character2>>
    /\ UNCHANGED <<dlgVars, genVars, extVars, raised>>

\* MainReadFails without the return of line 369: main goes on to the
\* example text.
MainReadFailsGoesOn ==
    /\ pc = "read"
    /\ args.text_file = "unreadable"
    /\ events' = Append(events, Event("read_failed", None, None))
    /\ pc' = "example"
    /\ UNCHANGED <<args, character1, character2>>
    /\ UNCHANGED <<dlgVars, genVars, extVars, raised>>

\* Lines 349 and 367-369: open or read raises; main prints and returns.
MainReadFails ==
    /\ pc = "read"
    /\ args.text_file = "unreadable"
    /\ events' = Append(events, Event("read_failed", None, None))
    /\ pc' = "done"
    /\ UNCHANGED <<args, character1, character2>>
    /\ UNCHANGED <<dlgVars, genVars, extVars, raised>>

\* Lines 353-356: character 1 is synthesized from the text when missing.
MainSynth1 ==
    /\ pc = "synth1"
    /\ IF ~Truthy(character1)
       THEN \E res \in ProfileResults :
               /\ character1' = GenerateCharacterProfile(args.name1, res)
               /\ events' = Append(events,
                      Event("synth", args.name1, character1'))
       ELSE UNCHANGED <<character1, events>>
    /\ pc' = "synth2"
    /\ UNCHANGED <<args, character2>>
    /\ UNCHANGED <<dlgVars, genVars, extVars, raised>>

\* Lines 359-366: character 2 is synthesized from the text when missing.
MainSynth2 ==
    /\ pc = "synth2"
    /\ IF ~Truthy(character2)
       THEN \E res \in ProfileResults :
               /\ character2' = GenerateCharacterProfile(Char2Name(args), res)
               /\ events' = Append(events,
                      Event("synth", Char2Name(args), character2'))
       ELSE UNCHANGED <<character2, events>>
    /\ pc' = "example"
    /\ UNCHANGED <<args, character1>>
    /\ UNCHANGED <<dlgVars, genVars, extVars, raised>>

\* Lines 372-387: when a persona is still missing, both are synthesized
\* from the example text.
MainExample ==
    /\ pc = "example"
    /\ IF WantsExample(character1, character2)
       THEN \E res1, res2 \in ProfileResults :
               /\ character1' = GenerateCharacterProfile(ExampleName1, res1)
               /\ character2' = GenerateCharacterProfile(ExampleName2, res2)
               /\ events' = events \o
                      <<Event("synth", ExampleName1, character1'),
                        Event("synth", ExampleName2, character2')>>
       ELSE UNCHANGED <<character1, character2, events>>
    /\ pc' = "dialogue"
    /\ UNCHANGED args
    /\ UNCHANGED <<dlgVars, genVars, extVars, raised>>

\* Lines 390-396: generate_dialogue is called.
MainCallDialogue ==
    /\ pc = "dialogue"
    /\ EnterDialogue(character1, character2, args.turns, args.init_prompt)
    /\ events' = Append(events, Event("dialogue", character1, character2))
    /\ pc' = "in_dialogue"
    /\ UNCHANGED <<args, character1, character2>>
    /\ UNCHANGED <<genVars, extVars, raised>>

\* Lines 399-406 and 220-283: save_dialogue writes the record and the
\* transcript, with the names extracted from the personas.
MainSave ==
    /\ pc = "in_dialogue"
    /\ dpc = "returned"
    /\ events' = Append(events,
           [kind |-> "save", a |-> character1, b |-> character2,
            n1 |-> ExtractCharacterName(character1),
            n2 |-> ExtractCharacterName(character2)])
    /\ pc' = "done"
    /\ UNCHANGED <<args, character1, character2>>
    /\ UNCHANGED <<dlgVars, genVars, extVars, raised>>

\* Lines 231-232, 259 and 407-410: the output directory or a file cannot
\* be written; the outer handler ends the run.
MainSaveFails ==
    /\ pc = "in_dialogue"
    /\ dpc = "returned"
    /\ events' = Append(events, Event("save_failed", character1, character2))
    /\ pc' = "done"
    /\ UNCHANGED <<args, character1, character2>>
    /\ UNCHANGED <<dlgVars, genVars, extVars, raised>>

\* The personas and names a command line may carry.
ArgPersonas == {None, LabelFull \o <<"COLON", "LI", "NL", "age", "COLON", "20">>}
ArgNames == {None, <<"ZHANG", "SAN">>}

\* ------------------------------------------- claims on the dialogue engine

\* The content the run's i-th turn must carry, from what its model call did.
ExpectedContent(i) ==
    IF outcomes[i].ok THEN outcomes[i].content
    ELSE default_replies[((i - 1) % Len(default_replies)) + 1]

\* C1: a call with num_turns >= 1 whose loop met no whole-loop error returns
\* exactly 2 * num_turns turns, whichever of its model calls failed.
C1_TwoTurnsPerRound ==
    (dpc = "returned" /\ num_turns >= 1 /\ error_at = -1)
        => Len(returned) = 2 * num_turns

C1_Witness ==
    /\ dpc = "returned" /\ num_turns >= 2 /\ error_at = -1
    /\ Len(returned) = 2 * num_turns
    /\ \E i, j \in 1..Len(outcomes) : outcomes[i].ok /\ ~outcomes[j].ok

\* C2: the first returned turn is character 1's and every later turn's
\* speaker differs from the one before, whatever the model calls did.
C2_SpeakersAlternate ==
    dpc = "returned" =>
        /\ Len(returned) >= 1 => returned[1].role = <<"JUE", "SE", "1">>
        /\ \A i \in 2..Len(returned) :
               /\ returned[i].role # returned[i - 1].role
               /\ returned[i].role \in {<<"JUE", "SE", "1">>, <<"JUE", "SE", "2">>}

C2_Witness ==
    /\ dpc = "returned" /\ Len(returned) >= 4
    /\ outcomes[1].ok /\ ~outcomes[2].ok /\ ~outcomes[3].ok /\ outcomes[4].ok
    /\ returned[3].role = <<"JUE", "SE", "1">>
    /\ returned[4].role = <<"JUE", "SE", "2">>

\* C3: a turn whose model call failed carries the fallback line at
\* (its 0-based position in the run) mod 7, not at the number of failures
\* so far; when every call fails the contents cycle through the list from 0.
C3_FallbackByTurnIndex ==
    /\ Len(default_replies) = 7
    /\ Len(dialogues) = Len(outcomes)
    /\ \A i \in 1..Len(outcomes) :
           ~outcomes[i].ok =>
               dialogues[i].content = default_replies[((i - 1) % 7) + 1]
    /\ dpc = "returned" => \A i \in 1..Len(outcomes) :
           ~outcomes[i].ok =>
               returned[i].content = default_replies[((i - 1) % 7) + 1]

C3_Witness ==
    /\ dpc = "returned" /\ Len(returned) = 8
    /\ outcomes[1].ok /\ \A i \in 2..8 : ~outcomes[i].ok
    /\ returned[2].content = default_replies[2]
    /\ returned[8].content = default_replies[1]

\* C6: when an exception is caught by the whole-loop handler at iteration k,
\* no further model call is made, nothing is raised, and the k turns built
\* before it are returned as they were, in order.
C6_PartialResultReturned ==
    error_at >= 0 =>
        /\ dpc \in {"after_loop", "returned"}
        /\ ~raised
        /\ Len(outcomes) = error_at
        /\ Len(dialogues) = error_at
        /\ dpc = "returned" =>
               /\ Len(returned) = error_at
               /\ \A i \in 1..error_at :
                      /\ returned[i].content = ExpectedContent(i)
                      /\ returned[i].role =
                             <<"JUE", "SE", IF i % 2 = 1 THEN "1" ELSE "2">>

C6_Witness ==
    /\ dpc = "returned" /\ error_at = 3 /\ Len(returned) = 3
    /\ num_turns >= 2
    /\ outcomes[1].ok /\ ~outcomes[2].ok

HistoryShape ==
    dpc = "loop" =>
        /\ Len(history) = 2 * turn
        /\ Len(dialogues) = turn
        /\ \A j \in 1..turn :
               /\ history[2 * j - 1].role = "user"
               /\ history[2 * j].role = "assistant"
               /\ history[2 * j].content = dialogues[j].content
               /\ history[2 * j].content = ExpectedContent(j)

RequestCarriesHistory ==
    (dpc = "loop" /\ turn >= 1) =>
        /\ Len(request) = 2 * turn
        /\ request[1].role = "system"
        /\ SubSeq(request, 2, 2 * turn - 1) = SubSeq(history, 1, 2 * turn - 2)
        /\ request[2 * turn] = history[2 * turn - 1]
        /\ request[2 * turn].role = "user"

HistoryOnlyGrows ==
    /\ Len(history') >= Len(history)
    /\ SubSeq(history', 1, Len(history)) = history

\* C10: at the start of iteration k the history holds 2k entries, user
\* prompt and assistant reply in turn, the reply of pair j being turn j's
\* content (model's or fallback); no entry is removed or changed; and the
\* request of iteration k carries the 2k earlier entries and the new prompt.
C10_HistoryGrows ==
    /\ [](HistoryShape /\ RequestCarriesHistory)
    /\ [][HistoryOnlyGrows]_vars

C10_Witness ==
    /\ dpc = "loop" /\ turn = 3 /\ Len(history) = 6 /\ Len(request) = 6
    /\ outcomes[1].ok /\ ~outcomes[2].ok
    /\ history[4].content = default_replies[2]

\* ------------------------------------------ claims on the synthesizer

\* C4: generate_character_profile never returns an empty string, whatever
\* the model call did (failure, or success with any content, the empty one
\* included).
C4_PersonaNeverEmpty ==
    gpc = "returned" => (profile # <<>> /\ profile # None)

\* C5: when the model call fails, the function has made that one call only,
\* raises nothing, and returns the fallback template whose name line holds
\* the requested name, or '默认角色' when no name was requested.
C5_FallbackOnFailure ==
    (gpc = "returned" /\ ~response.ok) =>
        /\ calls = 1
        /\ ~raised
        /\ LET shown == IF character_name = None \/ character_name = <<>>
                        THEN <<"MO", "REN", "JUE", "SE">>
                        ELSE character_name
               lead == <<"NL", "JUE", "SE", "MING", "CHENG", "COLON">>
               rest == SubSeq(profile, Len(lead) + Len(shown) + 1, Len(profile))
           IN  /\ SubSeq(profile, 1, Len(lead)) = lead
               /\ SubSeq(profile, Len(lead) + 1, Len(lead) + Len(shown)) = shown
               /\ rest = <<"NL", "age", "COLON", "30",
                           "NL", "gender", "COLON", "unknown",
                           "NL", "looks", "COLON", "plain",
                           "NL", "temper", "COLON", "friendly",
                           "NL", "speech", "COLON", "matter_of_fact",
                           "NL", "story", "COLON", "ordinary_life",
                           "NL", "habits", "COLON", "sociable",
                           "NL", "SP", "SP", "SP", "SP", "SP", "SP", "SP", "SP">>

C5_Witness ==
    /\ gpc = "returned" /\ ~response.ok /\ calls = 1
    /\ character_name = <<"ZHANG", "SAN">>
    /\ SubSeq(profile, 1, 8) =
           <<"NL", "JUE", "SE", "MING", "CHENG", "COLON", "ZHANG", "SAN">>

\* ---------------------------------------- claims on the name extraction

\* The name-label lines of p: <<i, j>> when p[i..j] is a whole line that
\* starts with 角色名称：; the line's N is p[i+5..j].
NameLabelLines(p) ==
    {ij \in (1..Len(p)) \X (1..Len(p)) :
        /\ ij[1] + 4 <= ij[2]
        /\ SubSeq(p, ij[1], ij[1] + 4) = <<"JUE", "SE", "MING", "CHENG", "COLON">>
        /\ (ij[1] = 1 \/ p[ij[1] - 1] = "NL")
        /\ (ij[2] = Len(p) \/ p[ij[2] + 1] = "NL")
        /\ \A k \in ij[1]..ij[2] : p[k] # "NL"}

\* A name-label token (名称 or 姓名; 角色名称 ends in 名称) lies in s.
TokenIn(s) ==
    \E k \in 1..(Len(s) - 1) :
        \/ (s[k] = "MING" /\ s[k + 1] = "CHENG")
        \/ (s[k] = "XING" /\ s[k + 1] = "MING")

\* m is n without its leading and trailing blanks.
TrimOf(m, n) ==
    \E i, j \in 0..Len(n) :
        /\ i + j <= Len(n)
        /\ m = SubSeq(n, i + 1, Len(n) - j)
        /\ \A k \in 1..i : n[k] = "SP"
        /\ \A k \in (Len(n) - j + 1)..Len(n) : n[k] = "SP"
        /\ m # <<>> => (m[1] # "SP" /\ m[Len(m)] # "SP")

\* C8, as claimed (N read up to the blanks around it, the reading most
\* favourable to the claim): whenever the persona text has a line
\* '角色名称：N' the name returned is N; with no label token it is
\* '未知角色'; nothing is raised.
C8_Original ==
    (xpc = "returned" /\ x_profile # None) =>
        /\ \A ij \in NameLabelLines(x_profile) :
               TrimOf(x_name, SubSeq(x_profile, ij[1] + 5, ij[2]))
        /\ ~TokenIn(x_profile) => x_name = <<"WEI", "ZHI", "JUE", "SE">>
        /\ ~raised

\* C8, amended: when the first line holding a label token is '角色名称：N'
\* and N has no '：', the name returned is N without the blanks around it;
\* without any label token (or for None) it is '未知角色'; the call never
\* raises.
C8_FirstLabelLine ==
    xpc = "returned" =>
        /\ ~raised
        /\ x_profile = None => x_name = <<"WEI", "ZHI", "JUE", "SE">>
        /\ x_profile # None =>
            /\ ~TokenIn(x_profile) => x_name = <<"WEI", "ZHI", "JUE", "SE">>
            /\ \A ij \in NameLabelLines(x_profile) :
                   LET n == SubSeq(x_profile, ij[1] + 5, ij[2])
                   IN  (/\ ~TokenIn(SubSeq(x_profile, 1, ij[1] - 1))
                        /\ \A k \in 1..Len(n) : n[k] # "COLON")
                           => TrimOf(x_name, n)

C8_Witness ==
    /\ xpc = "returned"
    /\ x_profile = <<"NL", "JUE", "SE", "MING", "CHENG", "COLON", "SP",
                     "ZHANG">>
    /\ x_name = <<"ZHANG">>


\* -------------------------------------------------------- claims on main

\* C7: a persona is assigned once and never replaced: one given on the
\* command line (--char1, --char2), or one already synthesized, is the
\* persona passed to generate_dialogue and to save_dialogue.
C7_PersonaNeverReplaced ==
    \A i \in 1..Len(events) :
        events[i].kind \in {"dialogue", "save"} =>
            /\ Truthy(args.char1) => events[i].a = args.char1
            /\ Truthy(args.char2) => events[i].b = args.char2
            /\ \A j \in 1..(i - 1) :
                   (events[j].kind = "synth" /\ Truthy(events[j].b)) =>
                       events[j].b \in {events[i].a, events[i].b}

\* C9: when reading the text file fails, main has made no synthesis call, no
\* dialogue call and no save before it, and makes none after it.
C9_ReadFailureEndsRun ==
    \A i \in 1..Len(events) :
        events[i].kind = "read_failed" =>
            /\ events = <<[kind |-> "read_failed", a |-> None, b |-> None,
                           n1 |-> None, n2 |-> None]>>
            /\ pc = "done"
            /\ dpc = "idle"
            /\ outcomes = <<>>
            /\ request = <<>>

C9_Witness ==
    /\ pc = "done"
    /\ args.text_file = "unreadable"
    /\ Truthy(args.char1) /\ ~Truthy(args.char2)
    /\ Len(events) = 1
    /\ events[1].kind = "read_failed"


\* --------------------------------------------------- the specifications

IdleDlg ==
    /\ dpc = "idle"
    /\ p_character1 = None
    /\ p_character2 = None
    /\ num_turns = 0
    /\ init_prompt = None
    /\ dialogues = <<>>
    /\ history = <<>>
    /\ current_character = 1
    /\ turn = 0
    /\ request = <<>>
    /\ outcomes = <<>>
    /\ error_at = -1
    /\ returned = None

\* A call generate_character_profile(text, character_name).
InitProfile ==
    /\ IdleMain /\ IdleDlg /\ IdleExt
    /\ raised = FALSE
    /\ gpc = "called"
    /\ text \in SourceTexts
    /\ character_name \in Names
    /\ response = [ok |-> FALSE, content |-> None]
    /\ calls = 0
    /\ profile = None

NextProfile ==
    \/ ProfileCallSucceeds
    \/ ProfileCallFails

SpecProfile == InitProfile /\ [][NextProfile]_vars

\* A call _extract_character_name(profile).
InitExtract ==
    /\ IdleMain /\ IdleDlg /\ IdleGen
    /\ raised = FALSE
    /\ xpc = "called"
    /\ x_profile \in TextsOver(Chunks, MaxChunks) \cup {None}
    /\ x_name = None

NextExtract == ExtractName

SpecExtract == InitExtract /\ [][NextExtract]_vars

\* A run of main.
InitMain ==
    /\ IdleDlg /\ IdleGen /\ IdleExt
    /\ raised = FALSE
    /\ pc = "start"
    /\ args \in [api_key : BOOLEAN,
                 text_file : {"none", "readable", "unreadable"},
                 char1 : ArgPersonas, char2 : ArgPersonas,
                 name1 : ArgNames, name2 : ArgNames,
                 turns : 0..MaxMainTurns,
                 init_prompt : Scenes]
    /\ character1 = None
    /\ character2 = None
    /\ events = <<>>

NextMain ==
    \/ MainNoKey
    \/ MainStart
    \/ MainReadFile
    \/ MainReadFails
    \/ MainSynth1
    \/ MainSynth2
    \/ MainExample
    \/ MainCallDialogue
    \/ TurnSucceeds
    \/ TurnFails
    \/ WholeLoopError
    \/ LoopEnds
    \/ ReturnDialogues
    \/ MainSave
    \/ MainSaveFails

SpecMain == InitMain /\ [][NextMain]_vars

====
